---- MODULE Spec2Model ----
(***************************************************************************)
(* The two analysis routes of backend/server.js, POST /analyze-text and    *)
(* POST /analyze: input validation, truncation, prompt construction, the   *)
(* race of model.generateContent against the timeout timer, extraction of  *)
(* the text of the provider's result, the two-stage JSON parse and the     *)
(* degraded response of the catch block.                                   *)
(*                                                                         *)
(* Texts are TLA+ strings, handled character by character with Len,        *)
(* SubSeq and \o.  A TLA+ string literal cannot hold the backquote, so the *)
(* character "~" stands for the backquote in every text of the model.      *)
(* An operator that needs an intermediate result several times takes it    *)
(* as a parameter of a helper, so that each step is evaluated once.        *)
(***************************************************************************)
EXTENDS Integers, Sequences, FiniteSets, TLC

(***************************************************************************)
(* Characters and JavaScript string primitives.                            *)
(***************************************************************************)

\* The backquote character of the fence regex /```json|```/g.
Tick == "~"

\* s.charAt(i - 1): the i-th character, "" past the end.
Ch(s, i) == IF i >= 1 /\ i <= Len(s) THEN SubSeq(s, i, i) ELSE ""

\* s.substring(i - 1): the suffix starting at the i-th character.
From(s, i) == SubSeq(s, i, Len(s))

\* Whether the text s has the text p at position i.
StartsAt(s, p, i) == i + Len(p) - 1 <= Len(s) /\ SubSeq(s, i, i + Len(p) - 1) = p

\* Whitespace of String.prototype.trim and of the JSON grammar.
WhiteSpace == {" ", "\n", "\t", "\r"}

Digits == {"0", "1", "2", "3", "4", "5", "6", "7", "8", "9"}

\* Characters that end a run of plain characters inside a string literal.
StringSpecials == {"\"", "\\", "\n", "\t", "\r"}

\* s.substring(0, n): the first n characters, the whole text when shorter.
Substring0(s, n) == IF Len(s) <= n THEN s ELSE SubSeq(s, 1, n)

\* The least and the greatest element of a set of positions, 0 if empty.
MinOf(S) == IF S = {} THEN 0 ELSE CHOOSE k \in S : \A j \in S : k <= j
MaxOf(S) == IF S = {} THEN 0 ELSE CHOOSE k \in S : \A j \in S : j <= k

\* The first position from i on whose character is in the set C, 0 if none.
FirstOf(s, i, C) == MinOf({k \in i..Len(s) : Ch(s, k) \in C})

TrimTo(s, S) == IF S = {} THEN "" ELSE SubSeq(s, MinOf(S), MaxOf(S))

\* String.prototype.trim: from the first to the last character that is not
\* whitespace.
Trim(s) == TrimTo(s, {k \in 1..Len(s) : Ch(s, k) \notin WhiteSpace})

Fence == Tick \o Tick \o Tick

\* The length of the match of /```json|```/ at position k: the longer
\* alternative is tried first.
FenceLen(s, k) == IF StartsAt(s, Fence \o "json", k) THEN 7 ELSE 3

RECURSIVE ReplaceFences(_)
RECURSIVE CutFence(_, _)

\* s with the match at position k removed and the rest replaced in turn;
\* k = 0: no match is left.
CutFence(s, k) ==
  IF k = 0 THEN s
  ELSE SubSeq(s, 1, k - 1) \o ReplaceFences(From(s, k + FenceLen(s, k)))

\* raw.replace(/```json|```/g, ''): every match removed, scanning left to
\* right.
ReplaceFences(s) == CutFence(s, MinOf({k \in 1..Len(s) : StartsAt(s, Fence, k)}))

(***************************************************************************)
(* JSON values.  Every value is a record of the same five fields, so any   *)
(* two values can be compared: t is the JavaScript type of the value, n    *)
(* the integer part of a number, s the text of a string (for a number,     *)
(* its fraction digits, "" for an integer), kids the elements of an array  *)
(* or the member values of an object, keys the member names of an object.  *)
(***************************************************************************)

JV(t, n, s, kids, keys) == [t |-> t, n |-> n, s |-> s, kids |-> kids, keys |-> keys]

JNull == JV("null", 0, "", <<>>, <<>>)
JBool(b) == JV("boolean", IF b THEN 1 ELSE 0, "", <<>>, <<>>)
JFrac(n, f) == JV("number", n, f, <<>>, <<>>)
JNum(n) == JV("number", n, "", <<>>, <<>>)
JStr(s) == JV("string", 0, s, <<>>, <<>>)
JArr(kids) == JV("array", 0, "", kids, <<>>)
JObj(keys, kids) == JV("object", 0, "", kids, keys)

\* The place of the member name k among the names keys, 0 if it is not one.
KeyIndex(keys, k) == MinOf({i \in 1..Len(keys) : keys[i] = k})

PutAt(obj, k, v, i) ==
  IF i = 0 THEN JObj(Append(obj.keys, k), Append(obj.kids, v))
  ELSE JObj(obj.keys, [obj.kids EXCEPT ![i] = v])

\* obj[k] = v on an object under construction: a repeated member name
\* keeps its first place and takes the last value.
PutMember(obj, k, v) == PutAt(obj, k, v, KeyIndex(obj.keys, k))

HasMember(v, k) == v.t = "object" /\ KeyIndex(v.keys, k) > 0

Member(v, k) == v.kids[KeyIndex(v.keys, k)]

(***************************************************************************)
(* JSON.parse, a recursive-descent parser of the JSON grammar.  A parse    *)
(* step answers [ok, val, pos]: pos is the place after the value.  A       *)
(* number is an optional minus sign, an integer part without leading       *)
(* zeros and an optional fraction; exponents and unicode escapes are not   *)
(* in the alphabet of the model's texts.                                   *)
(***************************************************************************)

ParseFail == [ok |-> FALSE, val |-> JNull, pos |-> 0]
ParseOk(v, p) == [ok |-> TRUE, val |-> v, pos |-> p]

RECURSIVE SkipWs(_, _)
SkipWs(s, i) == IF Ch(s, i) \in WhiteSpace THEN SkipWs(s, i + 1) ELSE i

RECURSIVE DigitsEnd(_, _)
DigitsEnd(s, i) == IF Ch(s, i) \in Digits THEN DigitsEnd(s, i + 1) ELSE i

DigitVal(c) ==
  CASE c = "0" -> 0 [] c = "1" -> 1 [] c = "2" -> 2 [] c = "3" -> 3
    [] c = "4" -> 4 [] c = "5" -> 5 [] c = "6" -> 6 [] c = "7" -> 7
    [] c = "8" -> 8 [] c = "9" -> 9

RECURSIVE ToInt(_)
ToInt(d) ==
  IF Len(d) = 0 THEN 0
  ELSE 10 * ToInt(SubSeq(d, 1, Len(d) - 1)) + DigitVal(Ch(d, Len(d)))

RECURSIVE StripZeros(_)
StripZeros(d) ==
  IF Len(d) > 0 /\ Ch(d, Len(d)) = "0" THEN StripZeros(SubSeq(d, 1, Len(d) - 1)) ELSE d

\* The number whose digits start at j (after the sign, if neg), whose
\* integer part ends before intEnd and whose fraction ends before fracEnd
\* (fracEnd = intEnd: no fraction).
NumberOf(s, neg, j, intEnd, fracEnd) ==
  IF intEnd = j \/ fracEnd = intEnd + 1 THEN ParseFail
  ELSE ParseOk(JFrac((IF neg THEN 0 - 1 ELSE 1) * ToInt(SubSeq(s, j, intEnd - 1)),
                     StripZeros(SubSeq(s, intEnd + 1, fracEnd - 1))),
               fracEnd)

NumberFraction(s, neg, j, intEnd) ==
  NumberOf(s, neg, j, intEnd,
           IF Ch(s, intEnd) = "." THEN DigitsEnd(s, intEnd + 1) ELSE intEnd)

NumberDigits(s, neg, j) ==
  NumberFraction(s, neg, j, IF Ch(s, j) = "0" THEN j + 1 ELSE DigitsEnd(s, j))

ParseNumber(s, i) ==
  IF Ch(s, i) = "-" THEN NumberDigits(s, TRUE, i + 1) ELSE NumberDigits(s, FALSE, i)

\* The character an escape sequence \d stands for, "" if \d is none.
Unescape(d) ==
  IF d \in {"\"", "\\", "/"} THEN d
  ELSE IF d = "n" THEN "\n"
  ELSE IF d = "t" THEN "\t"
  ELSE IF d = "r" THEN "\r"
  ELSE ""

RECURSIVE ParseString(_, _, _)
RECURSIVE StringAt(_, _, _)

\* The string literal at its next special character, at position k (0: the
\* text ends inside the literal); got holds the characters read so far.
StringAt(s, k, got) ==
  IF k = 0 \/ Ch(s, k) \in {"\n", "\t", "\r"} THEN ParseFail
  ELSE IF Ch(s, k) = "\"" THEN ParseOk(JStr(got), k + 1)
  ELSE IF Unescape(Ch(s, k + 1)) = "" THEN ParseFail
  ELSE ParseString(s, k + 2, got \o Unescape(Ch(s, k + 1)))

\* The characters of a string literal from position i (after the opening
\* quote) up to the closing quote; acc holds the characters read so far.
ParseString(s, i, acc) ==
  StringAt(s, FirstOf(s, i, StringSpecials),
           acc \o SubSeq(s, i, FirstOf(s, i, StringSpecials) - 1))

ParseLiteral(s, i) ==
  IF StartsAt(s, "true", i) THEN ParseOk(JBool(TRUE), i + 4)
  ELSE IF StartsAt(s, "false", i) THEN ParseOk(JBool(FALSE), i + 5)
  ELSE IF StartsAt(s, "null", i) THEN ParseOk(JNull, i + 4)
  ELSE ParseFail

RECURSIVE ParseValue(_, _)
RECURSIVE ParseElements(_, _, _)
RECURSIVE ParseMembers(_, _, _)

\* After an element, at position j: a comma, the closing bracket, or an error.
ElementsNext(s, j, acc) ==
  IF Ch(s, j) = "," THEN ParseElements(s, j + 1, acc)
  ELSE IF Ch(s, j) = "]" THEN ParseOk(JArr(acc), j + 1)
  ELSE ParseFail

ElementParsed(s, v, acc) ==
  IF ~v.ok THEN ParseFail ELSE ElementsNext(s, SkipWs(s, v.pos), Append(acc, v.val))

\* The elements of an array from position i, acc the elements so far.
ParseElements(s, i, acc) == ElementParsed(s, ParseValue(s, i), acc)

\* After a member, at position j: a comma, the closing brace, or an error.
MembersNext(s, j, obj) ==
  IF Ch(s, j) = "," THEN ParseMembers(s, j + 1, obj)
  ELSE IF Ch(s, j) = "}" THEN ParseOk(obj, j + 1)
  ELSE ParseFail

MemberParsed(s, key, v, obj) ==
  IF ~v.ok THEN ParseFail
  ELSE MembersNext(s, SkipWs(s, v.pos), PutMember(obj, key, v.val))

\* After a member name, at position c: the colon and the value.
MemberColon(s, key, c, obj) ==
  IF Ch(s, c) = ":" THEN MemberParsed(s, key, ParseValue(s, c + 1), obj) ELSE ParseFail

MemberNamed(s, k, obj) ==
  IF ~k.ok THEN ParseFail ELSE MemberColon(s, k.val.s, SkipWs(s, k.pos), obj)

MemberAt(s, k0, obj) ==
  IF Ch(s, k0) = "\"" THEN MemberNamed(s, ParseString(s, k0 + 1, ""), obj) ELSE ParseFail

\* The members of an object from position i, obj the object so far.
ParseMembers(s, i, obj) == MemberAt(s, SkipWs(s, i), obj)

\* The object or array whose first member or element, or closing
\* character, is at position j.
ContainerAt(s, open, j) ==
  IF open = "{"
  THEN IF Ch(s, j) = "}" THEN ParseOk(JObj(<<>>, <<>>), j + 1)
       ELSE ParseMembers(s, j, JObj(<<>>, <<>>))
  ELSE IF Ch(s, j) = "]" THEN ParseOk(JArr(<<>>), j + 1)
       ELSE ParseElements(s, j, <<>>)

\* The value whose first character is at position i.
ValueAt(s, i) ==
  IF Ch(s, i) \in {"{", "["} THEN ContainerAt(s, Ch(s, i), SkipWs(s, i + 1))
  ELSE IF Ch(s, i) = "\"" THEN ParseString(s, i + 1, "")
  ELSE IF Ch(s, i) = "-" \/ Ch(s, i) \in Digits THEN ParseNumber(s, i)
  ELSE ParseLiteral(s, i)

ParseValue(s, i) == ValueAt(s, SkipWs(s, i))

\* Nothing but whitespace may follow the value.
ParseEnd(s, v) ==
  IF v.ok /\ SkipWs(s, v.pos) = Len(s) + 1
  THEN [ok |-> TRUE, val |-> v.val]
  ELSE [ok |-> FALSE, val |-> JNull]

\* JSON.parse(s): [ok, val]; ok = FALSE is the SyntaxError it throws.
JSONParse(s) == ParseEnd(s, ParseValue(s, 1))

NoSpan == [found |-> FALSE, text |-> ""]

SpanTo(s, first, last) ==
  IF last = 0 THEN NoSpan ELSE [found |-> TRUE, text |-> SubSeq(s, first, last)]

SpanFrom(s, first) ==
  IF first = 0 THEN NoSpan
  ELSE SpanTo(s, first, MaxOf({i \in (first + 1)..Len(s) : Ch(s, i) = "}"}))

\* The span of raw.match(/{[\s\S]*}/): from the first "{" to the last "}"
\* after it; found = FALSE is the null of a failed match.
BraceSpan(s) == SpanFrom(s, MinOf({i \in 1..Len(s) : Ch(s, i) = "{"}))

(***************************************************************************)
(* JSON.stringify of a JSON value, as used on result.outputs[0].           *)
(***************************************************************************)

DigitChar(d) == SubSeq("0123456789", d + 1, d + 1)

RECURSIVE NatToStr(_)
NatToStr(n) ==
  IF n < 10 THEN DigitChar(n) ELSE NatToStr(n \div 10) \o DigitChar(n % 10)

EscapeChar(c) ==
  IF c \in {"\"", "\\"} THEN "\\" \o c
  ELSE IF c = "\n" THEN "\\n"
  ELSE IF c = "\t" THEN "\\t"
  ELSE "\\r"

RECURSIVE Escape(_)
RECURSIVE EscapeAt(_, _)

EscapeAt(s, k) ==
  IF k = 0 THEN s
  ELSE SubSeq(s, 1, k - 1) \o EscapeChar(Ch(s, k)) \o Escape(From(s, k + 1))

\* The text of a string literal: quotes, backslashes and control
\* characters escaped.
Escape(s) == EscapeAt(s, FirstOf(s, 1, StringSpecials))

RECURSIVE Stringify(_)
RECURSIVE StringifyKids(_, _)

\* The members or elements of v from the i-th on, separated by commas.
StringifyKids(v, i) ==
  IF i > Len(v.kids) THEN ""
  ELSE (IF i > 1 THEN "," ELSE "")
       \o (IF v.t = "object" THEN "\"" \o Escape(v.keys[i]) \o "\":" ELSE "")
       \o Stringify(v.kids[i])
       \o StringifyKids(v, i + 1)

Stringify(v) ==
  CASE v.t = "null" -> "null"
    [] v.t = "boolean" -> IF v.n = 1 THEN "true" ELSE "false"
    [] v.t = "number" ->
         (IF v.n < 0 THEN "-" ELSE "")
         \o NatToStr(IF v.n < 0 THEN 0 - v.n ELSE v.n)
         \o (IF v.s = "" THEN "" ELSE "." \o v.s)
    [] v.t = "string" -> "\"" \o Escape(v.s) \o "\""
    [] v.t \in {"array", "object"} ->
         (IF v.t = "array" THEN "[" ELSE "{")
         \o StringifyKids(v, 1)
         \o (IF v.t = "array" THEN "]" ELSE "}")

(***************************************************************************)
(* JavaScript values of the handlers.                                      *)
(***************************************************************************)

\* A request field or object property that may be missing (undefined).
Absent == [present |-> FALSE, v |-> ""]
Some(s) == [present |-> TRUE, v |-> s]

\* (o || ''): a missing property and the empty string both give ''.
OrEmpty(o) == IF o.present /\ o.v # "" THEN o.v ELSE ""

\* The result the provider's promise resolves with.  ty is typeof result;
\* text is result.response.text: absent, a string, a function returning v,
\* or a function throwing an error of message v; outputText is
\* result.outputText; outputs0 is result.outputs[0], an object when present.
ResultOf(ty, str, text, outputText, outputs0) ==
  [ty |-> ty, str |-> str, text |-> text, outputText |-> outputText, outputs0 |-> outputs0]

NoProp == [k |-> "absent", v |-> ""]
StringProp(s) == [k |-> "string", v |-> s]
FunctionProp(s) == [k |-> "function", v |-> s]
ThrowingProp(msg) == [k |-> "throws", v |-> msg]
NoValue == [present |-> FALSE, v |-> JNull]
ValueProp(v) == [present |-> TRUE, v |-> v]

StringResult(s) == ResultOf("string", s, NoProp, NoProp, NoValue)
ObjectResult(text, outputText, outputs0) == ResultOf("object", "", text, outputText, outputs0)
UndefinedResult == ResultOf("undefined", "", NoProp, NoProp, NoValue)

\* JavaScript truthiness of a property: a function is truthy, a string is
\* truthy unless empty, a missing property is falsy.
Truthy(prop) == prop.k \in {"function", "throws"} \/ (prop.k = "string" /\ prop.v # "")

(***************************************************************************)
(* The steps of the handlers.                                              *)
(***************************************************************************)

RESUME_LIMIT == 4000
JOB_LIMIT == 3000

\* TruncateResume with the substring call left out.
TruncateResumeNone(s) == s

\* const resumeText = (...).substring(0, 4000)
TruncateResume(s) == Substring0(s, RESUME_LIMIT)

\* const jobDescription = (...).substring(0, 3000)
TruncateJob(s) == Substring0(s, JOB_LIMIT)

PromptHead ==
  "\nYou are an ATS Resume Analyzer.\n\nAnalyze the resume against the job description.\n"
  \o "Respond ONLY with valid JSON.\n\n{\n  \"atsScore\": 0,\n  \"matchedSkills\": [],\n"
  \o "  \"missingSkills\": [],\n  \"improvements\": []\n}\n\nRESUME:\n"

PromptMiddle == "\n\nJOB DESCRIPTION:\n"

\* The template literal of the prompt.
BuildPrompt(r, j) == PromptHead \o r \o PromptMiddle \o j \o "\n"

\* The text of the provider's result: [ok, raw, err].  ok = FALSE is an
\* exception thrown while reading it, err its message.
ExtractRaw(res) ==
  IF res.ty = "string" THEN [ok |-> TRUE, raw |-> res.str, err |-> ""]
  ELSE IF res.ty = "object" /\ Truthy(res.text)
       THEN IF res.text.k = "throws" THEN [ok |-> FALSE, raw |-> "", err |-> res.text.v]
            ELSE [ok |-> TRUE, raw |-> res.text.v, err |-> ""]
  ELSE IF res.ty = "object" /\ Truthy(res.outputText)
       THEN [ok |-> TRUE, raw |-> res.outputText.v, err |-> ""]
  ELSE IF res.ty = "object" /\ res.outputs0.present
       THEN [ok |-> TRUE, raw |-> Stringify(res.outputs0.v), err |-> ""]
  ELSE [ok |-> TRUE,
        raw |-> IF res.ty = "object" THEN "[object Object]" ELSE "undefined",
        err |-> ""]

\* raw = raw.replace(/```json|```/g, '').trim()
StripFences(s) == Trim(ReplaceFences(s))

Stripped(e) == IF e.ok THEN [ok |-> TRUE, raw |-> StripFences(e.raw), err |-> ""] ELSE e

\* The normalizer: the text of the result, fences and outer whitespace removed.
Normalize(res) == Stripped(ExtractRaw(res))

ParseErrorMessage == "Failed to parse AI response as JSON"

\* What a JSON.parse gives the coercer: its value, or the Error thrown.
Parsed(p) ==
  IF p.ok THEN [ok |-> TRUE, val |-> p.val, err |-> ""]
  ELSE [ok |-> FALSE, val |-> JNull, err |-> ParseErrorMessage]

\* The catch of the first JSON.parse: parse the match m of the brace
\* regex, or throw when there is none.
Recover(m) == IF m.found THEN Parsed(JSONParse(m.text)) ELSE Parsed(ParseFail)

FirstParse(raw, whole) == IF whole.ok THEN Parsed(whole) ELSE Recover(BraceSpan(raw))

\* Coerce taking the brace span first, whether or not the whole text parses.
CoerceSpanFirst(raw) == Recover(BraceSpan(raw))

\* The coercer: JSON.parse(raw), and when that throws, JSON.parse of the
\* brace span of raw.  [ok, val, err].
Coerce(raw) == FirstParse(raw, JSONParse(raw))

Response(status, body) == [status |-> status, body |-> body]

\* The body of the catch block of /analyze-text.
CatchAnalyzeText(msg) ==
  Response(500,
    JObj(<<"atsScore", "matchedSkills", "missingSkills", "improvements", "error">>,
         <<JNum(50),
           JArr(<<JStr("Basic resume structure detected")>>),
           JArr(<<JStr("Unable to fully analyze (AI timeout)")>>),
           JArr(<<JStr("Retry analysis"), JStr("Use shorter resume"),
                  JStr("Ensure text-based PDF")>>),
           JStr(msg)>>))

\* CatchAnalyze with a payload that has drifted from that of /analyze-text.
CatchAnalyzeDrifted(msg) ==
  Response(500,
    JObj(<<"atsScore", "matchedSkills", "missingSkills", "improvements", "error">>,
         <<JNum(50),
           JArr(<<JStr("Basic resume structure detected")>>),
           JArr(<<JStr("Unable to fully analyze")>>),
           JArr(<<JStr("Retry analysis"), JStr("Use shorter resume"),
                  JStr("Ensure text-based PDF")>>),
           JStr(msg)>>))

\* The body of the catch block of /analyze.
CatchAnalyze(msg) ==
  Response(500,
    JObj(<<"atsScore", "matchedSkills", "missingSkills", "improvements", "error">>,
         <<JNum(50),
           JArr(<<JStr("Basic resume structure detected")>>),
           JArr(<<JStr("Unable to fully analyze (AI timeout)")>>),
           JArr(<<JStr("Retry analysis"), JStr("Use shorter resume"),
                  JStr("Ensure text-based PDF")>>),
           JStr(msg)>>))

Catch(endpoint, msg) ==
  IF endpoint = "/analyze-text" THEN CatchAnalyzeText(msg) ELSE CatchAnalyze(msg)

\* res.status(400).json({ error: ... })
BadRequest(endpoint) ==
  Response(400,
    JObj(<<"error">>,
         <<JStr(IF endpoint = "/analyze-text"
                THEN "resumeText and jobDescription required"
                ELSE "Resume and Job Description required")>>))

TimeoutMessage == "Gemini timeout"

\* res.json(analysis), or the catch block when the coercer threw.
AnswerCoerced(endpoint, c) ==
  IF c.ok THEN Response(200, c.val) ELSE Catch(endpoint, c.err)

\* What the handler sends once the provider's result has won the race and
\* its text n has been read.
Answer(endpoint, n) ==
  IF n.ok THEN AnswerCoerced(endpoint, Coerce(n.raw)) ELSE Catch(endpoint, n.err)

(***************************************************************************)
(* Inputs: the request bodies, the extracted PDF texts and the provider's  *)
(* results the model draws from.                                           *)
(***************************************************************************)

\* How many characters past the truncation limits the longest inputs go.
MaxOver == 1

RECURSIVE Pad(_)
Pad(n) ==
  IF n <= 0 THEN ""
  ELSE IF n % 2 = 0 THEN LET h == Pad(n \div 2) IN h \o h
  ELSE "x" \o Pad(n - 1)

\* A text of n >= 2 characters whose first and last characters differ from
\* the rest.
LongText(n) == "A" \o Pad(n - 2) \o "Z"

ShortResume == "Experienced backend engineer, Node, SQL"
ShortJob == "Looking for backend engineer with Go experience"

ResumeInputs ==
  {Absent, Some(""), Some(ShortResume)}
    \cup {Some(LongText(n)) : n \in RESUME_LIMIT..(RESUME_LIMIT + MaxOver)}

JobInputs ==
  {Absent, Some(""), Some(ShortJob)}
    \cup {Some(LongText(n)) : n \in JOB_LIMIT..(JOB_LIMIT + MaxOver)}

\* pdfData.text of a parsed PDF.
PdfTexts == ResumeInputs

PdfErrors == {"Invalid PDF structure"}
UpstreamErrors == {"fetch failed", "API key not valid"}
BlockedMessage == "Response was blocked"

ExampleJson ==
  "{\"atsScore\":65,\"matchedSkills\":[\"backend\"],\"missingSkills\":[\"Go\"],"
  \o "\"improvements\":[\"Add Go projects\"]}"

RecoveryJson ==
  "{\"atsScore\":80,\"matchedSkills\":[],\"missingSkills\":[],\"improvements\":[]}"

PrettyJson ==
  "{\n  \"atsScore\": 100,\n  \"matchedSkills\": [\"SQL\", \"Node\"],\n"
  \o "  \"missingSkills\": [],\n  \"improvements\": [\"Use {metrics}\"]\n}"

FenceInValueJson ==
  "{\"atsScore\":0,\"matchedSkills\":[],\"missingSkills\":[],"
  \o "\"improvements\":[\"Put code in ~~~ blocks\"]}"

\* Texts of JSON objects of the AnalysisResult schema.
SchemaJsons == {ExampleJson, RecoveryJson, PrettyJson, FenceInValueJson}

\* The ways a provider wraps its JSON: bare, in code fences, in prose.
Wrappings == {"bare", "fence-json", "fence", "prose", "prose-fence", "prose-braces"}

Wrap(w, t) ==
  CASE w = "bare" -> t
    [] w = "fence-json" -> "~~~json\n" \o t \o "\n~~~"
    [] w = "fence" -> "~~~\n" \o t \o "\n~~~\n"
    [] w = "prose" -> "Sure! " \o t \o " Hope that helps."
    [] w = "prose-fence" -> "Here you go:\n~~~json\n" \o t \o "\n~~~\nGood luck."
    [] w = "prose-braces" -> "The result {as JSON}: " \o t

WrappedTexts == {Wrap(w, t) : w \in Wrappings, t \in SchemaJsons}

\* Texts that parse as JSON but not to an AnalysisResult.
OffSchemaTexts ==
  { "{}", "42", "\"ok\"", "[]", "null", "\"{}\"", "[{\"atsScore\":1}]",
    "{\"atsScore\":80}",
    "{\"atsScore\":150,\"matchedSkills\":[],\"missingSkills\":[],\"improvements\":[]}",
    "{\"atsScore\":-5,\"matchedSkills\":[],\"missingSkills\":[],\"improvements\":[]}",
    "{\"atsScore\":80.5,\"matchedSkills\":[],\"missingSkills\":[],\"improvements\":[]}",
    "{\"atsScore\":\"high\",\"matchedSkills\":[],\"missingSkills\":[],\"improvements\":[]}",
    "{\"atsScore\":80,\"matchedSkills\":[1],\"missingSkills\":[],\"improvements\":[]}",
    "{\"atsScore\":80,\"matchedSkills\":\"Go\",\"missingSkills\":[],\"improvements\":[]}",
    "Score: {\"atsScore\":80,\"matchedSkills\":[]}" }

\* Texts neither stage of the coercer parses.
BrokenTexts ==
  { "", "I cannot help with that.", "{\"atsScore\": 80,", "} {",
    "{\"a\":1} and {\"b\":2}", "Result: {atsScore: 80}", "~~~json\n~~~" }

ProviderTexts == WrappedTexts \cup OffSchemaTexts \cup BrokenTexts

OutputTextJson == "{\"atsScore\":10,\"matchedSkills\":[],\"missingSkills\":[],\"improvements\":[]}"
OutputsValue ==
  JObj(<<"atsScore", "matchedSkills", "missingSkills", "improvements">>,
       <<JNum(20), JArr(<<>>), JArr(<<>>), JArr(<<>>)>>)

\* Results of every shape the extraction distinguishes, with several
\* properties present at once.
ShapedResults ==
  { ObjectResult(text, outputText, outputs0) :
      text \in {NoProp, StringProp(RecoveryJson), StringProp(""),
                FunctionProp(""), ThrowingProp(BlockedMessage)},
      outputText \in {NoProp, StringProp(OutputTextJson), StringProp("")},
      outputs0 \in {NoValue, ValueProp(OutputsValue)} }

ProviderResults ==
  {StringResult(t) : t \in ProviderTexts}
    \cup {ObjectResult(FunctionProp(t), NoProp, NoValue) : t \in ProviderTexts}
    \cup ShapedResults
    \cup {UndefinedResult}

(***************************************************************************)
(* State.                                                                  *)
(***************************************************************************)

VARIABLES
  pc,              \* where the handler is: "idle", "pdf" (awaiting pdfParse),
                   \* "race" (awaiting Promise.race), "done"
  req,             \* the request: endpoint, req.file present, req.body
  pdfData,         \* pdfParse: "none", "pending", "resolved", "rejected"
  pdfText,         \* pdfData.text once pdfParse has resolved
  resumeText,      \* the handler's resumeText after truncation
  jobDescription,  \* the handler's jobDescription after truncation
  prompt,          \* the argument of model.generateContent
  calls,           \* how many times model.generateContent was invoked
  provider,        \* its promise: "idle", "pending", "resolved", "rejected"
  timer,           \* the timeout timer: "unset", "armed", "fired"
  watched,         \* the promises Promise.race has subscribed to
  result,          \* what the provider's promise resolved with
  raw,             \* the handler's raw once normalized
  responses,       \* the responses sent, in order
  unhandled        \* rejections no handler was attached to

vars == <<pc, req, pdfData, pdfText, resumeText, jobDescription, prompt, calls,
          provider, timer, watched, result, raw, responses, unhandled>>

NoRequest == [endpoint |-> "", file |-> FALSE,
              body |-> [resumeText |-> Absent, jobDescription |-> Absent]]

Init ==
  /\ pc = "idle"
  /\ req = NoRequest
  /\ pdfData = "none"
  /\ pdfText = Absent
  /\ resumeText = ""
  /\ jobDescription = ""
  /\ prompt = ""
  /\ calls = 0
  /\ provider = "idle"
  /\ timer = "unset"
  /\ watched = {}
  /\ result = UndefinedResult
  /\ raw = Absent
  /\ responses = <<>>
  /\ unhandled = 0

\* RaceInputs with the timer's promise left out of the race.
RaceInputsNoTimer == {"provider"}

\* The operands of Promise.race: both promises get a reaction.
RaceInputs == {"provider", "timer"}

\* RacePending with a settled race settling again.
RacePendingAgain == pc \in {"race", "done"} /\ calls > 0

\* Whether the race is still undecided, so that the next of its promises
\* to settle resumes the handler.
RacePending == pc = "race"

\* StartRace calling the provider a second time.
StartRaceTwice(r, j) ==
  /\ resumeText' = r
  /\ jobDescription' = j
  /\ prompt' = BuildPrompt(r, j)
  /\ calls' = calls + 2
  /\ provider' = "pending"
  /\ timer' = "armed"
  /\ watched' = RaceInputs
  /\ pc' = "race"
  /\ UNCHANGED <<result, raw, responses, unhandled>>

\* Truncated texts in hand: build the prompt, call the provider once, arm
\* the timer and await the race of the two.
StartRace(r, j) ==
  /\ resumeText' = r
  /\ jobDescription' = j
  /\ prompt' = BuildPrompt(r, j)
  /\ calls' = calls + 1
  /\ provider' = "pending"
  /\ timer' = "armed"
  /\ watched' = RaceInputs
  /\ pc' = "race"
  /\ UNCHANGED <<result, raw, responses, unhandled>>

\* The handler ends by sending resp.
Finish(resp) ==
  /\ responses' = Append(responses, resp)
  /\ pc' = "done"

\* POST /analyze-text, up to its first await.
AnalyzeText ==
  /\ pc = "idle"
  /\ \E r \in ResumeInputs, j \in JobInputs :
       LET rt == TruncateResume(OrEmpty(r))
           jd == TruncateJob(OrEmpty(j))
       IN  /\ req' = [endpoint |-> "/analyze-text", file |-> FALSE,
                      body |-> [resumeText |-> r, jobDescription |-> j]]
           /\ UNCHANGED <<pdfData, pdfText>>
           /\ IF rt = "" \/ jd = ""
              THEN /\ Finish(BadRequest("/analyze-text"))
                   /\ UNCHANGED <<resumeText, jobDescription, prompt, calls, provider,
                                  timer, watched, result, raw, unhandled>>
              ELSE StartRace(rt, jd)

\* POST /analyze, up to its first await (pdfParse).
Analyze ==
  /\ pc = "idle"
  /\ \E f \in BOOLEAN, j \in JobInputs :
       /\ req' = [endpoint |-> "/analyze", file |-> f,
                  body |-> [resumeText |-> Absent, jobDescription |-> j]]
       /\ UNCHANGED <<pdfText, resumeText, jobDescription, prompt, calls, provider,
                      timer, watched, result, raw, unhandled>>
       /\ IF ~f \/ OrEmpty(j) = ""
          THEN /\ Finish(BadRequest("/analyze"))
               /\ UNCHANGED pdfData
          ELSE /\ pdfData' = "pending"
               /\ pc' = "pdf"
               /\ UNCHANGED responses

\* pdfParse resolves: /analyze goes on to its second await.
PdfParseResolve ==
  /\ pc = "pdf"
  /\ \E t \in PdfTexts :
       /\ pdfData' = "resolved"
       /\ pdfText' = t
       /\ StartRace(TruncateResume(OrEmpty(t)),
                    TruncateJob(OrEmpty(req.body.jobDescription)))
  /\ UNCHANGED req

\* pdfParse rejects: the catch block answers.
PdfParseReject ==
  /\ pc = "pdf"
  /\ \E msg \in PdfErrors :
       /\ pdfData' = "rejected"
       /\ Finish(CatchAnalyze(msg))
  /\ UNCHANGED <<req, pdfText, resumeText, jobDescription, prompt, calls, provider,
                 timer, watched, result, raw, unhandled>>

\* The handler resumes with the result res of the race, of text n.
Resume(res, n) ==
  /\ result' = res
  /\ raw' = IF n.ok THEN Some(n.raw) ELSE Absent
  /\ Finish(Answer(req.endpoint, n))

\* The provider's promise resolves.  If the race is undecided the handler
\* resumes with the result; otherwise the result is dropped.
ProviderResolve ==
  /\ provider = "pending"
  /\ \E res \in ProviderResults :
       /\ provider' = "resolved"
       /\ IF RacePending
          THEN Resume(res, Normalize(res))
          ELSE UNCHANGED <<result, raw, responses, pc>>
  /\ UNCHANGED <<req, pdfData, pdfText, resumeText, jobDescription, prompt, calls,
                 timer, watched, unhandled>>

\* The provider's promise rejects.
ProviderReject ==
  /\ provider = "pending"
  /\ \E msg \in UpstreamErrors :
       /\ provider' = "rejected"
       /\ unhandled' = IF "provider" \in watched THEN unhandled ELSE unhandled + 1
       /\ IF RacePending
          THEN Finish(Catch(req.endpoint, msg))
          ELSE UNCHANGED <<responses, pc>>
  /\ UNCHANGED <<req, pdfData, pdfText, resumeText, jobDescription, prompt, calls,
                 timer, watched, result, raw>>

\* The timer fires and rejects its promise with Error('Gemini timeout').
TimerFire ==
  /\ timer = "armed"
  /\ timer' = "fired"
  /\ unhandled' = IF "timer" \in watched THEN unhandled ELSE unhandled + 1
  /\ IF RacePending
     THEN Finish(Catch(req.endpoint, TimeoutMessage))
     ELSE UNCHANGED <<responses, pc>>
  /\ UNCHANGED <<req, pdfData, pdfText, resumeText, jobDescription, prompt, calls,
                 provider, watched, result, raw>>

Next ==
  \/ AnalyzeText
  \/ Analyze
  \/ PdfParseResolve
  \/ PdfParseReject
  \/ ProviderResolve
  \/ ProviderReject
  \/ TimerFire

Spec == Init /\ [][Next]_vars

(***************************************************************************)
(* Properties.                                                             *)
(***************************************************************************)

\* The fixed payload of the degraded result, with its error message.
DegradedResult(msg) ==
  [status |-> 500,
   body |-> JObj(<<"atsScore", "matchedSkills", "missingSkills", "improvements", "error">>,
                 <<JNum(50),
                   JArr(<<JStr("Basic resume structure detected")>>),
                   JArr(<<JStr("Unable to fully analyze (AI timeout)")>>),
                   JArr(<<JStr("Retry analysis"), JStr("Use shorter resume"),
                          JStr("Ensure text-based PDF")>>),
                   JStr(msg)>>)]

\* The AnalysisResult schema: an integer atsScore in 0..100 and three
\* arrays of strings.
IsStringArray(v) == v.t = "array" /\ \A i \in 1..Len(v.kids) : v.kids[i].t = "string"

IsScore(v) == v.t = "number" /\ v.s = "" /\ v.n \in 0..100

IsAnalysisResult(v) ==
  /\ v.t = "object"
  /\ HasMember(v, "atsScore") /\ IsScore(Member(v, "atsScore"))
  /\ \A k \in {"matchedSkills", "missingSkills", "improvements"} :
       HasMember(v, k) /\ IsStringArray(Member(v, k))

\* The resume text of the request, once it is known: the field of the
\* body on /analyze-text, the text extracted from the PDF on /analyze.
ResumeSource ==
  IF req.endpoint = "/analyze-text" THEN req.body.resumeText ELSE pdfText

ResumeKnown ==
  \/ req.endpoint = "/analyze-text"
  \/ req.endpoint = "/analyze" /\ (~req.file \/ pdfData = "resolved")

IsEmpty(o) == ~o.present \/ o.v = ""

\* The provider's result won the race: the handler went on with it.
ProviderWon == raw.present \/ result # UndefinedResult

\* C1: a request whose resume text or job description is empty or absent,
\* on either route, never reaches the provider and is answered with 400.
C1_EmptyInputRejected ==
  (ResumeKnown /\ (IsEmpty(ResumeSource) \/ IsEmpty(req.body.jobDescription)))
    => /\ calls = 0
       /\ pc = "done" => (Len(responses) = 1 /\ responses[1].status = 400)

\* C2: when the timer fires while the race is undecided, the response is
\* the degraded result with the timeout message, and nothing the provider
\* does afterwards changes what was sent.
C2_TimeoutWins ==
  [][/\ (pc = "race" /\ timer = "armed" /\ timer' = "fired")
          => responses' = <<DegradedResult("Gemini timeout")>>
     /\ (timer = "fired" /\ responses = <<DegradedResult("Gemini timeout")>>)
          => responses' = responses]_vars

\* The timer fired first and the provider resolved afterwards.
C2_Witness ==
  /\ timer = "fired" /\ provider = "resolved"
  /\ responses = <<DegradedResult("Gemini timeout")>>

\* C3: whatever the order of the two events, the first one to occur ends
\* the handler with exactly one response; the later one sends nothing,
\* leaves the handler ended and no rejection unhandled.
C3_ExactlyOneResponse ==
  [][/\ Len(responses') <= 1
     /\ unhandled' = 0
     /\ (pc = "race" /\ pc' # "race") => (pc' = "done" /\ Len(responses') = 1)
     /\ pc = "done" => (pc' = "done" /\ responses' = responses)]_vars

\* Both events occurred, the provider's rejection first.
C3_Witness ==
  /\ pc = "done" /\ timer = "fired" /\ provider = "rejected"
  /\ \E msg \in UpstreamErrors : responses = <<DegradedResult(msg)>>

\* C4: every body sent with status 200 is of the AnalysisResult schema.
C4_SuccessBodyHasSchema ==
  \A i \in 1..Len(responses) :
    responses[i].status = 200 => IsAnalysisResult(responses[i].body)

\* The text a result carries, for a result that is a string or has the
\* text() accessor of the provider's SDK.
ResultText(res) ==
  IF res.ty = "string" THEN Some(res.str)
  ELSE IF res.text.k = "function" THEN Some(res.text.v)
  ELSE Absent

\* C5: when the provider wins the race with a schema-matching JSON object,
\* bare, fenced or inside prose, the response is 200 with that object.
C5_ValidJsonReturnedUnchanged ==
  \A w \in Wrappings, t \in SchemaJsons :
    (ProviderWon /\ ResultText(result) = Some(Wrap(w, t)))
      => responses = <<[status |-> 200, body |-> JSONParse(t).val]>>

\* C6: every 500 response is the fixed payload plus the message of the
\* error, and each failure of the pipeline is answered with it: a rejected
\* pdfParse, a rejected provider, a throwing text(), an unparseable text.
C6_FailuresGiveFixedPayload ==
  /\ \A i \in 1..Len(responses) :
       responses[i].status = 500
         => responses[i] = DegradedResult(Member(responses[i].body, "error").s)
  /\ pdfData = "rejected"
       => \E msg \in PdfErrors : responses = <<DegradedResult(msg)>>
  /\ (provider = "rejected" /\ timer = "armed")
       => \E msg \in UpstreamErrors : responses = <<DegradedResult(msg)>>
  /\ (ProviderWon /\ result.ty = "object" /\ result.text.k = "throws")
       => responses = <<DegradedResult(result.text.v)>>
  /\ (raw.present /\ ~Coerce(raw.v).ok)
       => responses = <<DegradedResult("Failed to parse AI response as JSON")>>

\* /analyze answered a rejected pdfParse.
C6_Witness ==
  /\ req.endpoint = "/analyze" /\ pdfData = "rejected"
  /\ responses = <<DegradedResult("Invalid PDF structure")>>

\* The first n characters of s, all of s when it has no more.
Prefix(s, n) == SubSeq(s, 1, IF Len(s) < n THEN Len(s) ELSE n)

\* C7: the prompt the provider is called with holds the first 4000
\* characters of the resume text and the first 3000 of the job
\* description, and a request with both texts is never refused for length.
C7_TruncatedBeforePrompt ==
  /\ calls > 0 =>
       /\ resumeText = Prefix(ResumeSource.v, 4000)
       /\ jobDescription = Prefix(req.body.jobDescription.v, 3000)
       /\ prompt = PromptHead \o Prefix(ResumeSource.v, 4000) \o PromptMiddle
                     \o Prefix(req.body.jobDescription.v, 3000) \o "\n"
  /\ (req.endpoint = "/analyze-text" /\ ~IsEmpty(req.body.resumeText)
        /\ ~IsEmpty(req.body.jobDescription)) => calls > 0

\* Both texts were longer than their limits and were cut to them.
C7_Witness ==
  /\ calls > 0
  /\ Len(ResumeSource.v) > 4000 /\ Len(resumeText) = 4000
  /\ Len(req.body.jobDescription.v) > 3000 /\ Len(jobDescription) = 3000

\* The text the normalizer picks by the order (a) to (f): a string result,
\* the return value of a callable response.text, a string response.text
\* (the empty string too), outputText, the JSON of outputs[0], the result
\* converted to a string.
PickedText(res) ==
  IF res.ty = "string" THEN res.str
  ELSE IF res.ty = "object" /\ res.text.k \in {"function", "string"} THEN res.text.v
  ELSE IF res.ty = "object" /\ res.outputText.k = "string" THEN res.outputText.v
  ELSE IF res.ty = "object" /\ res.outputs0.present THEN Stringify(res.outputs0.v)
  ELSE IF res.ty = "object" THEN "[object Object]"
  ELSE "undefined"

\* C8: for every result the normalizer produces a string, the text picked
\* by the order (a) to (f) with fences and outer whitespace stripped.
C8_NormalizerOrder ==
  ProviderWon => raw = Some(Trim(ReplaceFences(PickedText(result))))

\* The text from the first "{" to the last "}" of s, if they are in that order.
FirstToLastBrace(s) ==
  LET a == MinOf({i \in 1..Len(s) : Ch(s, i) = "{"})
      b == MaxOf({i \in 1..Len(s) : Ch(s, i) = "}"})
  IN  IF a > 0 /\ b > a THEN Some(SubSeq(s, a, b)) ELSE Absent

\* C9: the answer to a normalized text is its whole-text parse when that
\* succeeds; otherwise the parse of its brace span when there is one and it
\* parses; otherwise the degraded result with the parse error.
C9_TwoStageParse ==
  raw.present =>
    LET whole == JSONParse(raw.v)
        span == FirstToLastBrace(raw.v)
    IN  responses =
          << IF whole.ok THEN [status |-> 200, body |-> whole.val]
             ELSE IF span.present /\ JSONParse(span.v).ok
                  THEN [status |-> 200, body |-> JSONParse(span.v).val]
             ELSE DegradedResult("Failed to parse AI response as JSON") >>

\* A text that parses as a whole to something else than its brace span
\* was answered with the whole-text parse.
C9_Witness ==
  /\ raw = Some("[{\"atsScore\":1}]")
  /\ responses = <<[status |-> 200, body |-> JArr(<<JObj(<<"atsScore">>, <<JNum(1)>>)>>)]>>

\* The request passed validation and, on /analyze, pdfParse resolved.
Validated ==
  \/ /\ req.endpoint = "/analyze-text"
     /\ ~IsEmpty(req.body.resumeText) /\ ~IsEmpty(req.body.jobDescription)
  \/ /\ req.endpoint = "/analyze"
     /\ req.file /\ ~IsEmpty(req.body.jobDescription) /\ pdfData = "resolved"

\* C10: the provider is invoked at most once per request, and exactly once
\* for a validated request, whatever fails afterwards.
C10_SingleInvocation ==
  /\ calls <= 1
  /\ Validated <=> calls = 1

\* One invocation, although the timer fired and the provider rejected.
C10_Witness ==
  calls = 1 /\ pc = "done" /\ timer = "fired" /\ provider = "rejected"

====
